---- MODULE Spec2Model ----
(***************************************************************************)
(* Model of src/app/api/session/route.ts: the timezone resolver, the       *)
(* weighted region selector, and the POST / DELETE session handlers that   *)
(* talk to the configuration source and the session provider.              *)
(*                                                                         *)
(* JavaScript values are records tagged by their type (field t).  Strings  *)
(* that the code transforms are sequences of one-character strings, so     *)
(* that toUpperCase is computed character by character.  An object whose   *)
(* keys the code iterates (a distribution row) is the sequence of its      *)
(* entries in property order, which is what Object.entries returns for     *)
(* non-numeric keys.                                                       *)
(***************************************************************************)
EXTENDS Integers, Sequences, FiniteSets, TLC

VARIABLES
  pc,             \* position of the running handler / function
  handler,        \* "none", "POST", "DELETE", or the pure function under test
  nreq,           \* number of requests the client has sent so far
  timezone,       \* createSession / getRegionFromTimezoneAbbr argument
  fetched,        \* how the await of getAll() ended
  config,         \* createSession local config, after the try / catch
  closestRegion,  \* base region (createSession local / selector argument)
  distributions,  \* table handed to the selector
  random,         \* Math.random() * 100, as an integer in 0..99
  finalRegion,    \* selector result
  returnPath,     \* which return statement of the selector ran
  createReq,      \* parameters of bb.sessions.create in flight
  session,        \* session object returned by bb.sessions.create
  updateReq,      \* parameters of bb.sessions.update in flight
  updateCalls,    \* bb.sessions.update calls issued by the running DELETE
  updateOutcome,  \* "none", "ok", "error": how bb.sessions.update ended
  createdHere,    \* ids the provider created for the running POST
  response,       \* NextResponse.json(...) produced by the handler
  thrown,         \* the error raised inside the handler, "none" if none
  fault,          \* TRUE when an exception escaped the handler
  sessions,       \* provider side: session id -> status record
  received        \* session ids the caller got in a success response

vars == <<pc, handler, nreq, timezone, fetched, config, closestRegion, distributions,
          random, finalRegion, returnPath, createReq, session, updateReq,
          updateCalls, updateOutcome, createdHere, response, thrown,
          fault, sessions, received>>

----------------------------------------------------------------------------
(* Bounds *)

\* longest distribution row enumerated for the selector
MaxRowLen == 2
\* requests the client sends one after the other
MaxRequests == 2

----------------------------------------------------------------------------
(* Regions and JavaScript values *)

BrowserbaseRegion == {"us-west-2", "us-east-1", "eu-central-1", "ap-southeast-1"}

\* the order in which the type lists its members
RegionOrder == <<"us-west-2", "us-east-1", "eu-central-1", "ap-southeast-1">>

\* a key that is not a region, as a malformed configuration may hold
ForeignKey == "xx-north-1"

Undefined == [t |-> "undefined"]
Null == [t |-> "null"]
Str(s) == [t |-> "string", s |-> s]
Num(n) == [t |-> "number", n |-> n]
Bool(b) == [t |-> "boolean", b |-> b]

\* JavaScript truthiness of the values used here
Truthy(v) ==
  CASE v.t = "undefined" -> FALSE
    [] v.t = "null" -> FALSE
    [] v.t = "string" -> Len(v.s) > 0
    [] v.t = "number" -> v.n # 0
    [] v.t = "boolean" -> v.b
    [] OTHER -> TRUE

\* a ?? b
Nullish(v) == v.t \in {"undefined", "null"}

----------------------------------------------------------------------------
(* String.prototype.toUpperCase *)

LowerLetters == <<"a","b","c","d","e","f","g","h","i","j","k","l","m",
                  "n","o","p","q","r","s","t","u","v","w","x","y","z">>
UpperLetters == <<"A","B","C","D","E","F","G","H","I","J","K","L","M",
                  "N","O","P","Q","R","S","T","U","V","W","X","Y","Z">>

\* the ligature U+FB06, whose upper case is the two letters S T
LigatureST == "st_ligature"

UpperChar(c) ==
  IF \E i \in 1..26 : LowerLetters[i] = c
    THEN <<UpperLetters[CHOOSE i \in 1..26 : LowerLetters[i] = c]>>
    ELSE IF c = LigatureST THEN <<"S", "T">> ELSE <<c>>

RECURSIVE toUpperCase(_)
toUpperCase(s) ==
  IF s = <<>> THEN <<>> ELSE UpperChar(Head(s)) \o toUpperCase(Tail(s))

----------------------------------------------------------------------------
(* timezoneAbbreviationMap *)

TimezonePairs ==
  { <<<<"E","S","T">>, "us-east-1">>,      <<<<"E","D","T">>, "us-east-1">>,
    <<<<"P","S","T">>, "us-west-2">>,      <<<<"P","D","T">>, "us-west-2">>,
    <<<<"M","S","T">>, "us-west-2">>,      <<<<"M","D","T">>, "us-west-2">>,
    <<<<"C","S","T">>, "us-east-1">>,      <<<<"C","D","T">>, "us-east-1">>,
    <<<<"G","M","T">>, "eu-central-1">>,   <<<<"B","S","T">>, "eu-central-1">>,
    <<<<"C","E","T">>, "eu-central-1">>,   <<<<"C","E","S","T">>, "eu-central-1">>,
    <<<<"E","E","T">>, "eu-central-1">>,   <<<<"E","E","S","T">>, "eu-central-1">>,
    <<<<"W","E","T">>, "eu-central-1">>,   <<<<"W","E","S","T">>, "eu-central-1">>,
    <<<<"J","S","T">>, "ap-southeast-1">>, <<<<"K","S","T">>, "ap-southeast-1">>,
    <<<<"I","S","T">>, "ap-southeast-1">>, <<<<"A","E","S","T">>, "ap-southeast-1">>,
    <<<<"A","E","D","T">>, "ap-southeast-1">>, <<<<"A","W","S","T">>, "ap-southeast-1">>,
    <<<<"N","Z","S","T">>, "ap-southeast-1">>, <<<<"N","Z","D","T">>, "ap-southeast-1">> }

TimezoneKeys == { p[1] : p \in TimezonePairs }

timezoneAbbreviationMap ==
  [k \in TimezoneKeys |-> (CHOOSE p \in TimezonePairs : p[1] = k)[2]]

----------------------------------------------------------------------------
(* getRegionFromTimezoneAbbr *)

\* variant: the lookup uses the abbreviation as given, without toUpperCase
ResolveTry_NoUpper(timezoneAbbr) ==
  IF ~Truthy(timezoneAbbr) THEN "us-west-2"
  ELSE IF timezoneAbbr.t # "string" THEN "TypeError"
  ELSE IF timezoneAbbr.s \in DOMAIN timezoneAbbreviationMap
         THEN timezoneAbbreviationMap[timezoneAbbr.s]
         ELSE "us-west-2"

\* the body of the try block; "TypeError" when toUpperCase is not a function
ResolveTry(timezoneAbbr) ==
  IF ~Truthy(timezoneAbbr) THEN "us-west-2"
  ELSE IF timezoneAbbr.t # "string" THEN "TypeError"
  ELSE LET key == toUpperCase(timezoneAbbr.s)
       IN IF key \in DOMAIN timezoneAbbreviationMap
            THEN timezoneAbbreviationMap[key]
            ELSE "us-west-2"

getRegionFromTimezoneAbbr(timezoneAbbr) ==
  LET r == ResolveTry(timezoneAbbr)
  IN IF r = "TypeError" THEN "us-west-2" ELSE r

----------------------------------------------------------------------------
(* defaultDistributions and selectRegionWithProbability *)

\* one property of a row object: key and value
Entry(k, w) == [key |-> k, weight |-> w]

\* variant: the row of ap-southeast-1 is a copy of the row of eu-central-1
defaultDistributions_CopiedRow ==
  [b \in BrowserbaseRegion |->
    CASE b = "us-west-2" ->
           <<Entry("us-west-2", 100), Entry("us-east-1", 0),
             Entry("eu-central-1", 0), Entry("ap-southeast-1", 0)>>
      [] b = "us-east-1" ->
           <<Entry("us-east-1", 100), Entry("us-west-2", 0),
             Entry("eu-central-1", 0), Entry("ap-southeast-1", 0)>>
      [] OTHER ->
           <<Entry("eu-central-1", 100), Entry("us-west-2", 0),
             Entry("us-east-1", 0), Entry("ap-southeast-1", 0)>>]

defaultDistributions ==
  [b \in BrowserbaseRegion |->
    CASE b = "us-west-2" ->
           <<Entry("us-west-2", 100), Entry("us-east-1", 0),
             Entry("eu-central-1", 0), Entry("ap-southeast-1", 0)>>
      [] b = "us-east-1" ->
           <<Entry("us-east-1", 100), Entry("us-west-2", 0),
             Entry("eu-central-1", 0), Entry("ap-southeast-1", 0)>>
      [] b = "eu-central-1" ->
           <<Entry("eu-central-1", 100), Entry("us-west-2", 0),
             Entry("us-east-1", 0), Entry("ap-southeast-1", 0)>>
      [] b = "ap-southeast-1" ->
           <<Entry("ap-southeast-1", 100), Entry("us-west-2", 0),
             Entry("us-east-1", 0), Entry("eu-central-1", 0)>>]

\* Math.random() * 100 lies in [0, Scale)
Scale == 100
Draws == 0..(Scale - 1)

\* variant: the loop compares with <= instead of <
RECURSIVE WalkEntries_LessEq(_, _, _, _)
WalkEntries_LessEq(row, i, cumulativeProbability, rnd) ==
  IF i > Len(row) THEN 0
  ELSE LET cum == cumulativeProbability + row[i].weight
       IN IF rnd <= cum THEN i ELSE WalkEntries_LessEq(row, i + 1, cum, rnd)

\* the for loop over Object.entries(distribution): the index of the entry at
\* which the loop returns, 0 when the loop runs to its end
RECURSIVE WalkEntries(_, _, _, _)
WalkEntries(row, i, cumulativeProbability, rnd) ==
  IF i > Len(row) THEN 0
  ELSE LET cum == cumulativeProbability + row[i].weight
       IN IF rnd < cum THEN i ELSE WalkEntries(row, i + 1, cum, rnd)

\* the entries of a row, regions first in the order of RegionOrder
InRegionOrder(row) ==
  SelectSeq(row, LAMBDA e : e.key = RegionOrder[1])
  \o SelectSeq(row, LAMBDA e : e.key = RegionOrder[2])
  \o SelectSeq(row, LAMBDA e : e.key = RegionOrder[3])
  \o SelectSeq(row, LAMBDA e : e.key = RegionOrder[4])
  \o SelectSeq(row, LAMBDA e : e.key \notin BrowserbaseRegion)

\* variant: the loop visits the regions in one fixed order
SelectRun_FixedOrder(baseRegion, dists, rnd) ==
  IF baseRegion \notin DOMAIN dists
    THEN [region |-> baseRegion, path |-> "no_row"]
    ELSE LET row == InRegionOrder(dists[baseRegion])
             i == WalkEntries(row, 1, 0, rnd)
         IN IF i = 0 THEN [region |-> baseRegion, path |-> "fallback"]
                     ELSE [region |-> row[i].key, path |-> "loop"]

\* the selector with the return statement it took
SelectRun(baseRegion, dists, rnd) ==
  IF baseRegion \notin DOMAIN dists
    THEN [region |-> baseRegion, path |-> "no_row"]
    ELSE LET row == dists[baseRegion]
             i == WalkEntries(row, 1, 0, rnd)
         IN IF i = 0 THEN [region |-> baseRegion, path |-> "fallback"]
                     ELSE [region |-> row[i].key, path |-> "loop"]

selectRegionWithProbability(baseRegion, dists, rnd) ==
  SelectRun(baseRegion, dists, rnd).region

----------------------------------------------------------------------------
(* Inputs of the two pure functions *)

RowKeys == BrowserbaseRegion \cup {ForeignKey}
RowWeights == {-30, 0, 30, 70}

\* rows: objects with at most MaxRowLen distinct keys, in property order; a
\* malformed row may hold a key that is no region or a negative weight
RowsOfLen(n) ==
  { row \in [1..n -> {Entry(k, w) : k \in RowKeys, w \in RowWeights}] :
      \A i, j \in 1..n : i # j => row[i].key # row[j].key }
Rows == UNION { RowsOfLen(n) : n \in 0..MaxRowLen }

\* tables: one row used for every base, the default table, and the default
\* table with rows removed
SelectTables ==
  { [b \in BrowserbaseRegion |-> row] : row \in Rows }
  \cup {defaultDistributions}
  \cup { [b \in BrowserbaseRegion \ {x} |-> defaultDistributions[b]] :
           x \in BrowserbaseRegion }
  \cup { [b \in {} |-> <<>>] }

RECURSIVE toLowerCase(_)
toLowerCase(s) ==
  IF s = <<>> THEN <<>>
  ELSE <<IF \E i \in 1..26 : UpperLetters[i] = Head(s)
           THEN LowerLetters[CHOOSE i \in 1..26 : UpperLetters[i] = Head(s)]
           ELSE Head(s)>> \o toLowerCase(Tail(s))

\* every key in upper, lower and mixed case, strings that are no key, and
\* values that are not strings
TimezoneInputs ==
  { Str(k) : k \in TimezoneKeys }
  \cup { Str(toLowerCase(k)) : k \in TimezoneKeys }
  \cup { Str(<<Head(k)>> \o toLowerCase(Tail(k))) : k \in TimezoneKeys }
  \cup { Str(<<>>), Str(<<"X","Y","Z">>), Str(<<"u","t","c">>),
         Str(<<"P","S">>), Str(<<"P","S","T","X">>), Str(<<" ","P","S","T">>),
         Str(<<"p", LigatureST>>), Str(<<"P","S","T","8","P","D","T">>) }
  \cup { Undefined, Null, Num(0), Num(42), Bool(TRUE), Bool(FALSE) }

----------------------------------------------------------------------------
(* Values of the variables that are not in use *)

NoConfig == [t |-> "none"]
NoRequest == [t |-> "none"]
NoSession == [t |-> "none"]
NoResponse == [t |-> "none"]
NoTable == [b \in {"none"} |-> <<>>]

IdleInit ==
  /\ nreq = 0
  /\ timezone = Undefined
  /\ fetched = NoConfig
  /\ config = NoConfig
  /\ closestRegion = "none"
  /\ distributions = NoTable
  /\ random = -1
  /\ finalRegion = "none"
  /\ returnPath = "none"
  /\ createReq = NoRequest
  /\ session = NoSession
  /\ updateReq = NoRequest
  /\ updateCalls = 0
  /\ updateOutcome = "none"
  /\ createdHere = {}
  /\ response = NoResponse
  /\ thrown = "none"
  /\ fault = FALSE
  /\ sessions = <<>>
  /\ received = {}

----------------------------------------------------------------------------
(* getRegionFromTimezoneAbbr applied to one input *)

InitResolve ==
  /\ pc = "resolve_call"
  /\ handler = "getRegionFromTimezoneAbbr"
  /\ nreq = 0
  /\ timezone \in TimezoneInputs
  /\ fetched = NoConfig
  /\ config = NoConfig
  /\ closestRegion = "none"
  /\ distributions = NoTable
  /\ random = -1
  /\ finalRegion = "none"
  /\ returnPath = "none"
  /\ createReq = NoRequest
  /\ session = NoSession
  /\ updateReq = NoRequest
  /\ updateCalls = 0
  /\ updateOutcome = "none"
  /\ createdHere = {}
  /\ response = NoResponse
  /\ thrown = "none"
  /\ fault = FALSE
  /\ sessions = <<>>
  /\ received = {}

Resolve ==
  /\ pc = "resolve_call"
  /\ pc' = "resolve_return"
  /\ closestRegion' = getRegionFromTimezoneAbbr(timezone)
  /\ UNCHANGED <<handler, nreq, timezone, fetched, config, distributions, random,
                 finalRegion, returnPath, createReq, session, updateReq,
                 updateCalls, updateOutcome, createdHere, response, thrown, fault,
                 sessions, received>>

NextResolve == Resolve

SpecResolve == InitResolve /\ [][NextResolve]_vars

----------------------------------------------------------------------------
(* selectRegionWithProbability applied to one base, table and draw *)

InitSelect ==
  /\ pc = "select_call"
  /\ handler = "selectRegionWithProbability"
  /\ nreq = 0
  /\ timezone = Undefined
  /\ fetched = NoConfig
  /\ config = NoConfig
  /\ closestRegion \in BrowserbaseRegion
  /\ distributions \in SelectTables
  /\ random \in Draws
  /\ finalRegion = "none"
  /\ returnPath = "none"
  /\ createReq = NoRequest
  /\ session = NoSession
  /\ updateReq = NoRequest
  /\ updateCalls = 0
  /\ updateOutcome = "none"
  /\ createdHere = {}
  /\ response = NoResponse
  /\ thrown = "none"
  /\ fault = FALSE
  /\ sessions = <<>>
  /\ received = {}

Select ==
  /\ pc = "select_call"
  /\ pc' = "select_return"
  /\ finalRegion' = selectRegionWithProbability(closestRegion, distributions, random)
  /\ returnPath' = SelectRun(closestRegion, distributions, random).path
  /\ UNCHANGED <<handler, nreq, timezone, fetched, config, closestRegion, distributions,
                 random, createReq, session, updateReq, updateCalls,
                 updateOutcome, createdHere, response, thrown, fault, sessions, received>>

NextSelect == Select

SpecSelect == InitSelect /\ [][NextSelect]_vars

----------------------------------------------------------------------------
(* createSession: from the result of getAll() to the parameters of        *)
(* bb.sessions.create                                                      *)

Obj(v) == [t |-> "object", v |-> v]

\* an EdgeConfig object; an absent field is Undefined
EdgeConfig(stealth, prox, dist) ==
  [t |-> "config", advancedStealth |-> stealth, proxies |-> prox,
   regionDistribution |-> dist]

EmptyConfig == EdgeConfig(Undefined, Undefined, Undefined)

\* let config = {}; try { config = (await getAll()) || {} } catch { log }
ConfigAfterFetch(outcome) ==
  IF outcome.t = "throws" THEN EmptyConfig
  ELSE IF outcome.t \in {"undefined", "null"} THEN EmptyConfig
  ELSE outcome

\* advancedStealthConfig ?? true
advancedStealthOf(cfg) ==
  IF Nullish(cfg.advancedStealth) THEN TRUE ELSE cfg.advancedStealth.b

\* variant: proxiesConfig ?? false
proxiesOf_DefaultOff(cfg) ==
  IF Nullish(cfg.proxies) THEN FALSE ELSE cfg.proxies.b

\* proxiesConfig ?? true
proxiesOf(cfg) ==
  IF Nullish(cfg.proxies) THEN TRUE ELSE cfg.proxies.b

browserSettingsOf(advancedStealth) ==
  [viewport |-> [width |-> 2560, height |-> 1440],
   blockAds |-> TRUE,
   advancedStealth |-> advancedStealth,
   os |-> IF advancedStealth THEN "windows" ELSE "linux"]

\* variant: the rows a fetched table lacks are taken from the default table
distributionsOf_Merge(cfg) ==
  IF Nullish(cfg.regionDistribution) THEN defaultDistributions
  ELSE [b \in BrowserbaseRegion \cup DOMAIN cfg.regionDistribution.v |->
          IF b \in DOMAIN cfg.regionDistribution.v
            THEN cfg.regionDistribution.v[b]
            ELSE defaultDistributions[b]]

\* distributionsConfig ?? defaultDistributions
distributionsOf(cfg) ==
  IF Nullish(cfg.regionDistribution) THEN defaultDistributions
  ELSE cfg.regionDistribution.v

\* the argument of bb.sessions.create
CreateParams(tz, cfg, rnd) ==
  [t |-> "create",
   proxies |-> proxiesOf(cfg),
   browserSettings |-> browserSettingsOf(advancedStealthOf(cfg)),
   keepAlive |-> TRUE,
   region |-> selectRegionWithProbability(getRegionFromTimezoneAbbr(tz),
                                          distributionsOf(cfg), rnd)]

----------------------------------------------------------------------------
(* Inputs of the handlers *)

\* body.timezone of a POST body that parsed to an object
PostTimezones ==
  { Undefined, Str(<<"P","S","T">>), Str(<<"J","S","T">>), Str(<<"E","S","T">>),
    Str(<<"c","e","t">>), Str(<<"X","Y","Z">>), Num(42) }

\* a fetched table that is total and well-formed: every base keeps 70 and
\* sends 30 to the region that follows it
SplitTable ==
  [b \in BrowserbaseRegion |->
    LET i == CHOOSE j \in 1..4 : RegionOrder[j] = b
        next == RegionOrder[(i % 4) + 1]
    IN <<Entry(next, 30), Entry(b, 70)>>
       \o [k \in 1..2 |-> Entry((CHOOSE q \in [1..2 -> BrowserbaseRegion \ {b, next}] :
                                   q[1] # q[2])[k], 0)]]

\* a fetched table that lacks the row of us-west-2
PartialTable == [b \in BrowserbaseRegion \ {"us-west-2"} |-> SplitTable[b]]

\* a fetched table whose rows hold a key that is no region
ForeignTable ==
  [b \in BrowserbaseRegion |-> <<Entry(ForeignKey, 30), Entry(b, 30)>>]

FetchedFlags == {Undefined, Bool(TRUE), Bool(FALSE)}
FetchedTables ==
  {Undefined, Null, Obj(SplitTable), Obj(PartialTable), Obj(ForeignTable)}

\* how await getAll() can end
FetchOutcomes ==
  { [t |-> "throws"], Undefined }
  \cup { EdgeConfig(a, p, d) : a \in FetchedFlags, p \in FetchedFlags,
                                d \in FetchedTables }

\* what the provider reports when a call fails
ProviderErrors == {"quota exceeded", "unauthorized"}

\* body.sessionId of a DELETE body: 0 is an id the provider never issued
DeleteIds == 0..MaxRequests

----------------------------------------------------------------------------
(* The handlers.  A client sends one request at a time.                    *)

Init ==
  /\ pc = "idle"
  /\ handler = "none"
  /\ IdleInit

\* a request arrives while no handler runs: the handler starts fresh
Fresh ==
  /\ nreq' = nreq + 1
  /\ timezone' = Undefined
  /\ fetched' = NoConfig
  /\ config' = NoConfig
  /\ closestRegion' = "none"
  /\ distributions' = NoTable
  /\ random' = -1
  /\ finalRegion' = "none"
  /\ returnPath' = "none"
  /\ createReq' = NoRequest
  /\ session' = NoSession
  /\ updateReq' = NoRequest
  /\ updateCalls' = 0
  /\ updateOutcome' = "none"
  /\ createdHere' = {}
  /\ response' = NoResponse
  /\ thrown' = "none"
  /\ fault' = FALSE
  /\ UNCHANGED <<sessions, received>>

\* the locals of createSession, dead once it returned or threw
ClearLocals ==
  /\ timezone' = Undefined
  /\ fetched' = NoConfig
  /\ config' = NoConfig
  /\ closestRegion' = "none"
  /\ distributions' = NoTable
  /\ random' = -1
  /\ finalRegion' = "none"
  /\ returnPath' = "none"
  /\ createReq' = NoRequest

\* NextResponse.json(body, {status})
Json(status, body) == [t |-> "json", status |-> status, body |-> body]

\* variant: the catch block reports the error it caught
PostCatch_Leak(error) ==
  Json(500, [success |-> FALSE, error |-> error])

\* the catch block of POST
PostCatch(error) ==
  Json(500, [success |-> FALSE, error |-> "Failed to create session"])

PostStart ==
  /\ pc \in {"idle", "done"}
  /\ nreq < MaxRequests
  /\ handler' = "POST"
  /\ pc' = "post_json"
  /\ Fresh

\* await request.json() rejects, or the body is null and body.timezone throws
PostBodyFails ==
  /\ pc = "post_json"
  /\ \E error \in {"SyntaxError", "TypeError"} :
       /\ thrown' = error
       /\ response' = PostCatch(error)
  /\ pc' = "done"
  /\ UNCHANGED <<handler, nreq, timezone, fetched, config, closestRegion,
                 distributions, random, finalRegion, returnPath, createReq,
                 session, updateReq, updateCalls, updateOutcome, createdHere,
                 fault, sessions, received>>

\* the body parsed: createSession(timezone) runs up to await getAll()
PostBodyOk ==
  /\ pc = "post_json"
  /\ timezone' \in PostTimezones
  /\ pc' = "post_getAll"
  /\ UNCHANGED <<handler, nreq, fetched, config, closestRegion, distributions,
                 random, finalRegion, returnPath, createReq, session,
                 updateReq, updateCalls, updateOutcome, createdHere, response,
                 thrown, fault, sessions, received>>

\* getAll() settled: createSession runs up to await bb.sessions.create(...)
PostGetAll ==
  /\ pc = "post_getAll"
  /\ \E outcome \in FetchOutcomes, rnd \in Draws :
       LET cfg == ConfigAfterFetch(outcome)
           base == getRegionFromTimezoneAbbr(timezone)
           dists == distributionsOf(cfg)
       IN /\ fetched' = outcome
          /\ config' = cfg
          /\ closestRegion' = base
          /\ distributions' = dists
          /\ random' = rnd
          /\ finalRegion' = selectRegionWithProbability(base, dists, rnd)
          /\ returnPath' = SelectRun(base, dists, rnd).path
          /\ createReq' = CreateParams(timezone, cfg, rnd)
  /\ pc' = "post_create"
  /\ UNCHANGED <<handler, nreq, timezone, session, updateReq, updateCalls,
                 updateOutcome, createdHere, response, thrown, fault, sessions,
                 received>>

\* the provider created the session: createSession returns, getDebugUrl runs
\* up to await bb.sessions.debug(session.id)
PostCreateOk ==
  /\ pc = "post_create"
  /\ LET id == Cardinality(DOMAIN sessions) + 1
     IN /\ sessions' = [i \in DOMAIN sessions \cup {id} |->
                          IF i = id
                            THEN [status |-> "RUNNING", keepAlive |-> createReq.keepAlive]
                            ELSE sessions[i]]
        /\ session' = [t |-> "session", id |-> id, connectUrl |-> id]
        /\ createdHere' = createdHere \cup {id}
  /\ pc' = "post_debug"
  /\ ClearLocals
  /\ UNCHANGED <<handler, nreq, updateReq, updateCalls, updateOutcome,
                 response, thrown, fault, received>>

\* bb.sessions.create rejected
PostCreateFail ==
  /\ pc = "post_create"
  /\ \E error \in ProviderErrors :
       /\ thrown' = error
       /\ response' = PostCatch(error)
  /\ pc' = "done"
  /\ ClearLocals
  /\ UNCHANGED <<handler, nreq, session, updateReq, updateCalls,
                 updateOutcome, createdHere, fault, sessions, received>>

\* bb.sessions.debug resolved: the success response
PostDebugOk ==
  /\ pc = "post_debug"
  /\ response' = Json(200, [success |-> TRUE, sessionId |-> session.id,
                            sessionUrl |-> session.id,
                            connectUrl |-> session.connectUrl])
  /\ received' = received \cup {session.id}
  /\ pc' = "done"
  /\ UNCHANGED <<handler, nreq, timezone, fetched, config, closestRegion,
                 distributions, random, finalRegion, returnPath, createReq,
                 session, updateReq, updateCalls, updateOutcome, createdHere,
                 thrown, fault, sessions>>

\* bb.sessions.debug rejected
PostDebugFail ==
  /\ pc = "post_debug"
  /\ \E error \in ProviderErrors :
       /\ thrown' = error
       /\ response' = PostCatch(error)
  /\ pc' = "done"
  /\ UNCHANGED <<handler, nreq, timezone, fetched, config, closestRegion,
                 distributions, random, finalRegion, returnPath, createReq,
                 session, updateReq, updateCalls, updateOutcome, createdHere,
                 fault, sessions, received>>

DeleteStart ==
  /\ pc \in {"idle", "done"}
  /\ nreq < MaxRequests
  /\ handler' = "DELETE"
  /\ pc' = "delete_json"
  /\ Fresh

\* await request.json() rejects, or the body is null: nothing catches it
DeleteBodyFails ==
  /\ pc = "delete_json"
  /\ thrown' \in {"SyntaxError", "TypeError"}
  /\ fault' = TRUE
  /\ pc' = "done"
  /\ UNCHANGED <<handler, nreq, timezone, fetched, config, closestRegion,
                 distributions, random, finalRegion, returnPath, createReq,
                 session, updateReq, updateCalls, updateOutcome, createdHere,
                 response, sessions, received>>

\* the body parsed: endSession(sessionId) runs up to await bb.sessions.update
DeleteBodyOk ==
  /\ pc = "delete_json"
  /\ \E sessionId \in DeleteIds :
       updateReq' = [t |-> "update", id |-> sessionId, status |-> "REQUEST_RELEASE"]
  /\ updateCalls' = updateCalls + 1
  /\ pc' = "delete_update"
  /\ UNCHANGED <<handler, nreq, timezone, fetched, config, closestRegion,
                 distributions, random, finalRegion, returnPath, createReq,
                 session, updateOutcome, createdHere, response, thrown, fault,
                 sessions, received>>

\* the provider released the session: endSession returns, DELETE responds
DeleteUpdateOk ==
  /\ pc = "delete_update"
  /\ updateReq.id \in DOMAIN sessions
  /\ sessions' = [sessions EXCEPT ![updateReq.id].status = "RELEASED"]
  /\ updateOutcome' = "ok"
  /\ response' = Json(200, [success |-> TRUE])
  /\ pc' = "done"
  /\ UNCHANGED <<handler, nreq, timezone, fetched, config, closestRegion,
                 distributions, random, finalRegion, returnPath, createReq,
                 session, updateReq, updateCalls, createdHere, thrown, fault, received>>

\* variant: a rejected update is issued again
DeleteUpdateFail_Retry ==
  /\ pc = "delete_update"
  /\ updateCalls' = updateCalls + 1
  /\ thrown' \in ProviderErrors
  /\ UNCHANGED <<pc, handler, nreq, timezone, fetched, config, closestRegion,
                 distributions, random, finalRegion, returnPath, createReq,
                 session, updateReq, updateOutcome, createdHere, response,
                 fault, sessions, received>>

\* bb.sessions.update rejected: the error leaves endSession and DELETE
DeleteUpdateFail ==
  /\ pc = "delete_update"
  /\ updateOutcome' = "error"
  /\ thrown' \in ProviderErrors
  /\ fault' = TRUE
  /\ pc' = "done"
  /\ UNCHANGED <<handler, nreq, timezone, fetched, config, closestRegion,
                 distributions, random, finalRegion, returnPath, createReq,
                 session, updateReq, updateCalls, createdHere, response,
                 sessions, received>>

Next ==
  \/ PostStart
  \/ PostBodyFails
  \/ PostBodyOk
  \/ PostGetAll
  \/ PostCreateOk
  \/ PostCreateFail
  \/ PostDebugOk
  \/ PostDebugFail
  \/ DeleteStart
  \/ DeleteBodyFails
  \/ DeleteBodyOk
  \/ DeleteUpdateOk
  \/ DeleteUpdateFail

Spec == Init /\ [][Next]_vars

----------------------------------------------------------------------------
(* Properties *)

\* the running total after the first i entries of a row
RECURSIVE SumTo(_, _)
SumTo(row, i) == IF i = 0 THEN 0 ELSE SumTo(row, i - 1) + row[i].weight

RowKeySet(row) == { row[i].key : i \in 1..Len(row) }

\* the same entries listed in every order
Reorderings(row) ==
  { [i \in 1..Len(row) |-> row[f[i]]] : f \in Permutations(1..Len(row)) }

\* the selector returned and the base region had a row
SelectedFromRow ==
  /\ pc \in {"select_return", "post_create"}
  /\ closestRegion \in DOMAIN distributions

\* C1: for every base region, every table (also one whose rows hold keys that
\* are no region) and every draw, the selector returns one of the four
\* regions, and so the region createSession submits is one of the four.
C1_RegionInEnumeration ==
  /\ pc = "select_return" => finalRegion \in BrowserbaseRegion
  /\ pc = "post_create" => createReq.region \in BrowserbaseRegion

\* the regionDistribution field of what getAll() produced
FetchedDistribution ==
  IF fetched.t = "config" THEN fetched.regionDistribution ELSE Undefined

\* a table with a row for each region, each row with a non-negative weight
\* for each region and no other key
WellFormedTable(tbl) ==
  /\ DOMAIN tbl = BrowserbaseRegion
  /\ \A b \in BrowserbaseRegion :
       /\ RowKeySet(tbl[b]) = BrowserbaseRegion
       /\ Len(tbl[b]) = 4
       /\ \A i \in 1..4 : tbl[b][i].weight >= 0

\* C2 (as claimed): the table handed to the selector is the default table
\* whenever the fetched regionDistribution is absent or malformed; a fetched
\* table is used only when it is well-formed and total.
C2_DefaultUnlessWellFormed ==
  pc = "post_create" =>
    IF FetchedDistribution.t = "object" /\ WellFormedTable(FetchedDistribution.v)
      THEN distributions = FetchedDistribution.v
      ELSE distributions = defaultDistributions

\* C2 (amended): the table handed to the selector is the default table, whole,
\* exactly when the fetched regionDistribution is absent (undefined or null,
\* or no configuration was fetched); every other fetched table is handed over
\* unchanged, also a partial or malformed one; rows are never mixed.
C2_DefaultOnlyWhenAbsent ==
  pc = "post_create" =>
    IF FetchedDistribution.t = "object"
      THEN distributions = FetchedDistribution.v
      ELSE distributions = defaultDistributions

\* a fetched table without the row of the base region reached the selector
C2_Witness ==
  /\ pc = "post_create"
  /\ FetchedDistribution = Obj(PartialTable)
  /\ distributions = PartialTable
  /\ closestRegion = "us-west-2"
  /\ returnPath = "no_row"
  /\ createReq.region = "us-west-2"

\* C3 (as claimed): the walk uses one fixed order of the regions, so a row
\* with the same weights listed in another order selects the same region.
C3_OrderOfEntriesIrrelevant ==
  (SelectedFromRow /\ RowKeySet(distributions[closestRegion]) \subseteq BrowserbaseRegion) =>
    \A other \in Reorderings(distributions[closestRegion]) :
      selectRegionWithProbability(closestRegion,
          [distributions EXCEPT ![closestRegion] = other], random) = finalRegion

\* C3 (amended): the walk follows the order in which the entries appear in
\* the row: the result is the key of the first entry, in that order, at which
\* the running total exceeds the draw, and the base region when there is none.
C3_WalkInEntryOrder ==
  (SelectedFromRow /\ RowKeySet(distributions[closestRegion]) \subseteq BrowserbaseRegion) =>
    LET row == distributions[closestRegion]
        hits == { i \in 1..Len(row) : random < SumTo(row, i) }
    IN IF hits = {}
         THEN finalRegion = closestRegion
         ELSE \E i \in hits : /\ \A j \in hits : i <= j
                              /\ finalRegion = row[i].key

\* a row whose entry order decides: the other order would select us-west-2
C3_Witness ==
  /\ pc = "select_return"
  /\ closestRegion = "eu-central-1"
  /\ closestRegion \in DOMAIN distributions
  /\ distributions[closestRegion] = <<Entry("us-east-1", 30), Entry("us-west-2", 70)>>
  /\ random = 10
  /\ finalRegion = "us-east-1"

\* C4: the resolver returns us-west-2 for an absent, empty, unknown or
\* non-string input, and for a string whose upper case is a key of the map,
\* in any letter case, the region the map assigns to that key.
C4_ResolverTotal ==
  pc = "resolve_return" =>
    /\ closestRegion \in BrowserbaseRegion
    /\ IF timezone.t = "string" /\ toUpperCase(timezone.s) \in TimezoneKeys
         THEN closestRegion = timezoneAbbreviationMap[toUpperCase(timezone.s)]
         ELSE closestRegion = "us-west-2"
    /\ timezone = Str(<<"j","s","t">>) => closestRegion = "ap-southeast-1"
    /\ timezone = Str(<<"C","e","s","t">>) => closestRegion = "eu-central-1"

\* a key in lower case resolved to a region other than the default
C4_Witness ==
  /\ pc = "resolve_return"
  /\ timezone = Str(<<"e","d","t">>)
  /\ closestRegion = "us-east-1"

FailureResponse ==
  [t |-> "json", status |-> 500,
   body |-> [success |-> FALSE, error |-> "Failed to create session"]]

\* C5: when reading the body, the create call or the debug call raised an
\* error, the POST response is exactly the generic failure with status 500;
\* a success response is produced only when create and debug both succeeded.
C5_GenericFailure ==
  (handler = "POST" /\ pc = "done") =>
    /\ ~fault
    /\ thrown # "none" => response = FailureResponse
    /\ thrown = "none" =>
         /\ response.status = 200
         /\ DOMAIN response.body = {"success", "sessionId", "sessionUrl", "connectUrl"}
         /\ response.body.success
         /\ session.t = "session"
         /\ response.body.sessionId = session.id
         /\ response.body.connectUrl = session.connectUrl
         /\ session.id \in DOMAIN sessions
         /\ session.id \in received

\* the debug call failed after the create call had succeeded
C5_Witness ==
  /\ handler = "POST"
  /\ pc = "done"
  /\ thrown = "quota exceeded"
  /\ session.t = "session"
  /\ response = FailureResponse

\* C6: with the default table the selector returns the base region for each
\* of the four base regions and each draw; PST ends in us-west-2 and JST in
\* ap-southeast-1.
C6_DefaultTableKeepsBase ==
  (pc \in {"select_return", "post_create"} /\ distributions = defaultDistributions) =>
    /\ finalRegion = closestRegion
    /\ pc = "post_create" =>
         /\ createReq.region = closestRegion
         /\ timezone = Str(<<"P","S","T">>) => createReq.region = "us-west-2"
         /\ timezone = Str(<<"J","S","T">>) => createReq.region = "ap-southeast-1"

\* JST with the default table and the largest draw
C6_Witness ==
  /\ pc = "post_create"
  /\ distributions = defaultDistributions
  /\ timezone = Str(<<"J","S","T">>)
  /\ random = Scale - 1
  /\ createReq.region = "ap-southeast-1"

\* C7: for a row of non-negative weights with sum S < 100 the selector
\* returns the base region through the fallback exactly for the draws with
\* S <= r (the 100 - S integers S..99), and for r < S the key of the first
\* entry in walk order whose running total exceeds r.
C7_ShortfallFallsBack ==
  SelectedFromRow =>
    LET row == distributions[closestRegion]
        S == SumTo(row, Len(row))
    IN ((\A i \in 1..Len(row) : row[i].weight >= 0) /\ S < Scale) =>
         /\ (returnPath = "fallback") <=> (S <= random)
         /\ returnPath = "fallback" => finalRegion = closestRegion
         /\ random < S =>
              \E i \in 1..Len(row) :
                /\ finalRegion = row[i].key
                /\ random < SumTo(row, i)
                /\ \A j \in 1..(i - 1) : SumTo(row, j) <= random

\* two entries with sum 60, the first draw that falls through
C7_Witness ==
  /\ pc = "select_return"
  /\ closestRegion = "us-west-2"
  /\ closestRegion \in DOMAIN distributions
  /\ distributions[closestRegion] = <<Entry("us-east-1", 30), Entry("eu-central-1", 30)>>
  /\ random = 60
  /\ returnPath = "fallback"
  /\ finalRegion = "us-west-2"

\* C8: when getAll() throws or returns nothing, createSession still submits
\* a create request, with advancedStealth, proxies and keepAlive true, os
\* "windows" and the base region of the timezone; each flag falls back to
\* true on its own, whatever the rest of a fetched configuration holds.
C8_DefaultsWhenConfigMissing ==
  /\ (handler = "POST" /\ fetched.t \in {"throws", "undefined"}) =>
       /\ pc = "post_create"
       /\ createReq.t = "create"
       /\ createReq.browserSettings.advancedStealth = TRUE
       /\ createReq.browserSettings.os = "windows"
       /\ createReq.proxies = TRUE
       /\ createReq.keepAlive = TRUE
       /\ createReq.region = closestRegion
       /\ closestRegion = getRegionFromTimezoneAbbr(timezone)
  /\ (pc = "post_create" /\ fetched.t = "config") =>
       /\ Nullish(fetched.advancedStealth) =>
            /\ createReq.browserSettings.advancedStealth = TRUE
            /\ createReq.browserSettings.os = "windows"
       /\ Nullish(fetched.proxies) => createReq.proxies = TRUE
       /\ createReq.keepAlive = TRUE

\* getAll() threw and the request for JST went out
C8_Witness ==
  /\ pc = "post_create"
  /\ fetched.t = "throws"
  /\ timezone = Str(<<"J","S","T">>)
  /\ createReq.proxies = TRUE
  /\ createReq.region = "ap-southeast-1"

\* C9: DELETE issues one release request (status REQUEST_RELEASE) and never
\* a second one; it responds {success: true} only after the request
\* completed, and when the request fails the error leaves the handler with no
\* response at all.
C9_SingleReleaseNoCatch ==
  /\ updateCalls <= 1
  /\ (handler = "DELETE" /\ pc = "delete_update") =>
       /\ updateCalls = 1
       /\ updateReq.status = "REQUEST_RELEASE"
       /\ response = NoResponse
  /\ (handler = "DELETE" /\ pc = "done" /\ updateReq # NoRequest) => updateCalls = 1
  /\ (handler = "DELETE" /\ response # NoResponse) =>
       /\ response = Json(200, [success |-> TRUE])
       /\ updateOutcome = "ok"
       /\ sessions[updateReq.id].status = "RELEASED"
  /\ (handler = "DELETE" /\ updateOutcome = "error") =>
       /\ pc = "done"
       /\ fault
       /\ response = NoResponse

\* the release request failed
C9_Witness ==
  /\ handler = "DELETE"
  /\ pc = "done"
  /\ updateCalls = 1
  /\ updateOutcome = "error"
  /\ fault

\* C10: when a POST has completed, every session the provider created for it
\* has had its id returned to the caller; a failed request leaves no session
\* behind whose id nobody received.
C10_NoOrphanSession ==
  (handler = "POST" /\ pc = "done") =>
    \A id \in createdHere :
      (sessions[id].status = "RUNNING" /\ sessions[id].keepAlive) => id \in received

====
